---- MODULE Spec2Model ----
(***************************************************************************)
(* Node status service (melkior): the Redis-backed Store, the NodeService  *)
(* RPC handlers that call it, the in-process event Broker and the          *)
(* WatchEvents engine.                                                     *)
(*                                                                         *)
(* Every Redis round trip of a handler (GET, HGETALL, one pipeline Exec,   *)
(* XADD, XREAD) is one atomic step; handlers of different clients          *)
(* interleave between round trips.  A node record keeps the fields the     *)
(* indexes and the events depend on (id, type, name, status) and its       *)
(* last_seen, labels and metadata.  Time is counted in ticks of the wall    *)
(* clock, TicksPerSecond of them to a second.                              *)
(***************************************************************************)
EXTENDS Integers, Sequences, FiniteSets, TLC

\* ---------------------------------------------------------------- bounds
MaxSeqCalls == 3    \* RPCs of one sequential behaviour
MaxCalls  == 2      \* RPCs started in one concurrent behaviour
MaxFaults == 1      \* Redis round trips that fail in one behaviour
MaxBuf    == 1      \* capacity of a subscriber channel in the model
MaxTime   == 3      \* last tick of the wall clock
MaxAggCalls == 3    \* calls on the Aggregator by its caller in one behaviour
MaxRetryAttempts == 3   \* the largest RetryConfig.MaxAttempts
MaxBkCalls == 4     \* calls on the Broker by its tasks in one behaviour
XReadCount == 100   \* Count of the XREAD in GetEventStream
TicksPerSecond == 2 \* clock readings told apart within one second
DefaultPageSize == 100  \* page size of ListNodes when the request has none
MaxPageSize == 1000     \* largest page size of ListNodes

\* ---------------------------------------------------------------- domains
Clients  == {"c1", "c2"}
Watchers == {"w1"}
Ids      == {"i1", "i2"}
Names    == {"a", "b"}
Types    == {"VM", "BAREMETAL"}
Statuses == {"UP", "DOWN"}

\* Every status of the NodeStatus enumeration the model uses; the zero value
\* is NODE_STATUS_UNSPECIFIED.
AllStatuses == Statuses \cup {"UNSPECIFIED", "UNKNOWN"}

\* A nil timestamp.
Nil == -1

\* A node's labels are a set of <<key, value>> pairs with one value to a key;
\* a request that carries no label arrives with a nil map.  The metadata is
\* a text the service does not look into.
LabelKeys   == <<"env", "zone">>
LabelValues == {"dev", "prod"}
NoLabels    == {}
LabelMaps   ==
  {l \in SUBSET ({LabelKeys[i] : i \in 1..Len(LabelKeys)} \X LabelValues) :
     \A x, y \in l : x[1] = y[1] => x = y}
Metadatums  == {"", "{}"}

NoNode == [id |-> "", type |-> "", name |-> "", status |-> "", last_seen |-> Nil,
    labels |-> NoLabels, metadata |-> ""]
NoReq  == [op |-> "", id |-> "", type |-> "", name |-> "", status |-> "",
           last_seen |-> Nil,
    labels |-> NoLabels, metadata |-> ""]

VARIABLES
  redis,      \* the Redis keyspace: hash, byname, all, type, status, events
  subscribers,\* Broker.subscribers: subscriber id -> buffered channel content
  pc,         \* per client: the next round trip of its RPC, "idle" between RPCs
  req,        \* per client: the request of its current (or last) RPC
  old,        \* per client: the node its handler read with GetNode
  res,        \* per client: the status code its last RPC returned
  appended,   \* per client: sequences of the log entries its current (or
              \* last) RPC appended
  published,  \* per client: channel sends its current (or last) RPC made
  notified,   \* per client: the message its current (or last) RPC handed to
              \* Broker.Publish
  faulted,    \* per client: a round trip of its current (or last) RPC failed
  overlap,    \* per client: another RPC ran while its current (or last) one did
  prev,       \* sequential runs: the node the RPC before this one created
  pre,        \* sequential runs: the keyspace when the current RPC started
  ncalls,     \* RPCs started so far
  faults,     \* Redis round trips failed so far
  wpc,        \* per watcher: state of the WatchEvents send loop
  tpc,        \* per watcher: state of the log-polling goroutine
  ctxDone,    \* per watcher: its stream context is cancelled
  lastID,     \* per watcher: cursor of the log-polling goroutine
  batch,      \* per watcher: events of the last XREAD not yet mirrored
  subAt,      \* per watcher: length of the log when it subscribed
  delivered,  \* per watcher: the messages sent on its stream, in order
  clock,      \* the wall clock time.Now() reads, in ticks
  gate,       \* the RPC the auth interceptor was given and what it did with it
  pub,        \* the last Broker.Publish call: the event, the publisher's
              \* context, the subscribers before it
  former,     \* per subscriber id: the channel a Subscribe or Unsubscribe
              \* last took out of Broker.subscribers
  page,       \* a client's enumeration of ListNodes pages
  bk,         \* the Broker with its lock and the tasks that call it
  agg,        \* the client-side Aggregator and the goroutines that call it
  retry       \* one call of RetryWithBackoff

clientVars == <<pc, req, old, res, appended, published, notified, faulted,
                overlap,
                prev, pre, ncalls, faults>>
watchVars  == <<wpc, tpc, ctxDone, lastID, batch, subAt, delivered>>
extVars    == <<page, bk, agg, retry>>
auxVars    == <<clock, gate, pub, former, extVars>>
vars == <<redis, subscribers, pc, req, old, res, appended, published, notified,
          faulted,
          overlap, prev, pre, ncalls, faults, wpc, tpc, ctxDone, lastID,
          batch, subAt, delivered, clock, gate, pub, former, page, bk, agg,
          retry>>

\* ------------------------------------------------------- partial functions
Put(f, k, v) == [x \in (DOMAIN f) \cup {k} |-> IF x = k THEN v ELSE f[x]]
Remove(f, k) == [x \in (DOMAIN f) \ {k} |-> f[x]]
EmptyMap     == [x \in {} |-> x]

\* ------------------------------------------------------------------ Store
EmptyRedis ==
  [hash   |-> EmptyMap,
   byname |-> EmptyMap,
   all    |-> {},
   type   |-> [t \in Types |-> {}],
   status |-> [s \in AllStatuses |-> {}],
   events |-> <<>>]

\* last_seen as saveNode writes it and nodeFromHash reads it back:
\* time.RFC3339 keeps whole seconds.
RFC3339(t) == IF t = Nil THEN Nil ELSE t - (t % TicksPerSecond)

\* json.Marshal of a label map: null for the nil map, else the entries in
\* the order of their keys.
RECURSIVE MarshalEntries(_, _)
MarshalEntries(l, i) ==
  IF i > Len(LabelKeys) THEN ""
  ELSE (IF \E x \in l : x[1] = LabelKeys[i]
        THEN LabelKeys[i] \o ":"
               \o (CHOOSE x \in l : x[1] = LabelKeys[i])[2] \o ","
        ELSE "")
       \o MarshalEntries(l, i + 1)

Marshal(l) == IF l = NoLabels THEN "null" ELSE "{" \o MarshalEntries(l, 1) \o "}"

\* json.Unmarshal into a nil map; nodeFromHash skips an empty labels_json.
Unmarshal(j) ==
  IF j = "" \/ j = "null" THEN NoLabels
  ELSE CHOOSE l \in LabelMaps : Marshal(l) = j

\* Store.nodeFromHash.
nodeFromHash(data) == [data EXCEPT !.labels = Unmarshal(@)]

\* The SADD nodes:all is left out of the pipeline.
saveNodeNoAll(r, node) ==
  [r EXCEPT !.hash   = Put(@, node.id, [node EXCEPT !.last_seen = RFC3339(@),
                                                !.labels = Marshal(@)]),
            !.byname = Put(@, <<node.type, node.name>>, node.id),
            !.type[node.type]     = @ \cup {node.id},
            !.status[node.status] = @ \cup {node.id}]

\* Store.saveNode: one pipeline of HSET, SET byname, three SADD.
saveNode(r, node) ==
  [r EXCEPT !.hash   = Put(@, node.id, [node EXCEPT !.last_seen = RFC3339(@),
                                                !.labels = Marshal(@)]),
            !.byname = Put(@, <<node.type, node.name>>, node.id),
            !.all    = @ \cup {node.id},
            !.type[node.type]     = @ \cup {node.id},
            !.status[node.status] = @ \cup {node.id}]

\* The two SREM are left out of the pipeline.
deleteIndexesNoSRem(r, node) ==
  [r EXCEPT !.byname = Remove(@, <<node.type, node.name>>)]

\* Store.deleteIndexes: one pipeline of DEL byname, two SREM.
deleteIndexes(r, node) ==
  [r EXCEPT !.byname = Remove(@, <<node.type, node.name>>),
            !.type[node.type]     = @ \ {node.id},
            !.status[node.status] = @ \ {node.id}]

\* The pipeline of Store.DeleteNode: DEL node:{id}, SREM nodes:all.
deleteRecord(r, id) ==
  [r EXCEPT !.hash = Remove(@, id),
            !.all  = @ \ {id}]

\* The XADD is issued twice.
appendEventTwice(r, kind, id, changed) ==
  [r EXCEPT !.events = @ \o << [kind |-> kind, id |-> id, changed |-> changed],
                               [kind |-> kind, id |-> id, changed |-> changed] >>]

\* Store.appendEvent: XADD; the log assigns the next sequence.
appendEvent(r, kind, id, changed) ==
  [r EXCEPT !.events = Append(@, [kind |-> kind, id |-> id, changed |-> changed])]

\* Store.GetNode: HGETALL; an empty hash is "node not found".
Exists(r, id)  == id \in DOMAIN r.hash
GetNode(r, id) == IF Exists(r, id) THEN nodeFromHash(r.hash[id]) ELSE NoNode

\* Store.ListNodes selects one set of ids: nodes:all, one type or status
\* index, or for two filters the key ZINTERSTORE wrote.  ZINTERSTORE writes a
\* sorted set (no key when the intersection is empty), on which SMEMBERS
\* returns WRONGTYPE.  A filter of "" is the UNSPECIFIED value.
ListFails(r, typeFilter, statusFilter) ==
  /\ typeFilter # "" /\ statusFilter # ""
  /\ r.type[typeFilter] \cap r.status[statusFilter] # {}

Members(r, typeFilter, statusFilter) ==
  IF typeFilter # "" /\ statusFilter # "" THEN {}
  ELSE IF typeFilter # "" THEN r.type[typeFilter]
  ELSE IF statusFilter # "" THEN r.status[statusFilter]
  ELSE r.all

\* The orders in which SMEMBERS can return the members of a set.
Orders(S) ==
  {o \in [1..Cardinality(S) -> S] : \A i, j \in DOMAIN o : o[i] = o[j] => i = j}

\* Store.ListNodes on the members in the order o: the slice start..end, then
\* GetNode of each id, skipping the ids it fails on.
ListSlice(r, o, offset, limit) ==
  LET end == IF offset + limit > Len(o) \/ limit = 0 THEN Len(o)
             ELSE offset + limit
  IN IF offset >= Len(o) THEN <<>>
     ELSE SelectSeq(SubSeq(o, offset + 1, end), LAMBDA id : Exists(r, id))

\* The page size NodeService.ListNodes passes to the Store.
PageSize(pageSize) ==
  IF pageSize = 0 THEN DefaultPageSize
  ELSE IF pageSize > MaxPageSize THEN MaxPageSize ELSE pageSize

\* The ids of the first page of NodeService.ListNodes with page_size unset,
\* whatever order SMEMBERS returns.
ListNodes(r, typeFilter, statusFilter) ==
  UNION {{ListSlice(r, o, 0, PageSize(0))[i] :
            i \in 1..Len(ListSlice(r, o, 0, PageSize(0)))} :
         o \in Orders(Members(r, typeFilter, statusFilter))}

\* The bounds of members[start:end] in Store.ListNodes over n members.  The
\* slice is taken when start < n; Go panics on it unless
\* 0 <= start <= end <= n.
SliceEnd(n, offset, limit) ==
  IF offset + limit > n \/ limit = 0 THEN n ELSE offset + limit
SliceTaken(n, offset, limit) == offset < n
SlicePanics(n, offset, limit) ==
  /\ SliceTaken(n, offset, limit)
  /\ ~(0 <= offset /\ offset <= SliceEnd(n, offset, limit)
                   /\ SliceEnd(n, offset, limit) <= n)

\* fmt.Sprintf("%d", n).
DigitChars == <<"0", "1", "2", "3", "4", "5", "6", "7", "8", "9">>
RECURSIVE Sprintf(_)
Sprintf(n) ==
  IF n < 0 THEN "-" \o Sprintf(-n)
  ELSE IF n < 10 THEN DigitChars[n + 1]
  ELSE Sprintf(n \div 10) \o DigitChars[(n % 10) + 1]

\* fmt.Sscanf(token, "%d", &offset): an optional sign and the digits that
\* follow it; offset keeps its value when there is no digit.
IsDigit(ch)  == \E d \in 1..10 : DigitChars[d] = ch
DigitVal(ch) == (CHOOSE d \in 1..10 : DigitChars[d] = ch) - 1
RECURSIVE ScanDigits(_, _, _)
ScanDigits(str, i, acc) ==
  IF i > Len(str) \/ ~IsDigit(SubSeq(str, i, i)) THEN acc
  ELSE ScanDigits(str, i + 1, 10 * acc + DigitVal(SubSeq(str, i, i)))
Sscanf(str, offset) ==
  LET signed == Len(str) > 0 /\ SubSeq(str, 1, 1) \in {"-", "+"}
      first  == IF signed THEN 2 ELSE 1
  IN IF first > Len(str) \/ ~IsDigit(SubSeq(str, first, first)) THEN offset
     ELSE IF signed /\ SubSeq(str, 1, 1) = "-"
          THEN 0 - ScanDigits(str, first, 0)
          ELSE ScanDigits(str, first, 0)

\* The key is looked up as {name}:{type}: no stored key matches.
KeyTakenSwapped(r, type, name) == <<name, type>> \in DOMAIN r.byname

\* The uniqueness read of Store.CreateNode: GET node:byname:{type}:{name}.
KeyTaken(r, type, name) == <<type, name>> \in DOMAIN r.byname

\* The labels are not compared.
getChangedFieldsNoLabels(o, n) ==
  (IF o.name # n.name THEN <<"name">> ELSE <<>>) \o
  (IF o.type # n.type THEN <<"type">> ELSE <<>>) \o
  (IF o.status # n.status THEN <<"status">> ELSE <<>>) \o
  (IF o.metadata # n.metadata THEN <<"metadata_json">> ELSE <<>>)

\* Store.getChangedFields, in the code's order.
getChangedFields(o, n) ==
  (IF o.name # n.name THEN <<"name">> ELSE <<>>) \o
  (IF o.type # n.type THEN <<"type">> ELSE <<>>) \o
  (IF o.status # n.status THEN <<"status">> ELSE <<>>) \o
  (IF Marshal(o.labels) # Marshal(n.labels) THEN <<"labels">> ELSE <<>>) \o
  (IF o.metadata # n.metadata THEN <<"metadata_json">> ELSE <<>>)

\* Store.UpdateStatus: the node handed to deleteIndexes and saveNode.  The
\* status is assigned before the indexes are deleted.
StatusNode(o, status) == [o EXCEPT !.status = status]
StatusChanged(o, status) == o.status # status

\* ----------------------------------------------------------------- Broker
\* Broker.Publish with a live context: one non-blocking send per subscriber.
Publish(subs, m) ==
  [s \in DOMAIN subs |->
     IF Len(subs[s]) < MaxBuf THEN Append(subs[s], m) ELSE subs[s]]

\* Broker.Publish with a cancelled context: the select takes the send or the
\* ctx.Done case where both are ready, so the event reaches any subset of
\* the subscribers whose buffer has room.
PublishDone(subs, m) ==
  {[s \in DOMAIN subs |-> IF s \in S THEN Append(subs[s], m) ELSE subs[s]] :
     S \in SUBSET {s \in DOMAIN subs : Len(subs[s]) < MaxBuf}}

\* Broker.Subscribe: a fresh channel under the id, replacing any other.
Subscribe(subs, id) == Put(subs, id, <<>>)

\* Broker.Unsubscribe: close the channel and delete the entry.
Unsubscribe(subs, id) == Remove(subs, id)

Sends(subs, subs2) == Cardinality({s \in DOMAIN subs : subs2[s] # subs[s]})

Msg(kind, id, seq) == [kind |-> kind, id |-> id, seq |-> seq]

\* The WatchEventsResponse a handler builds: its event type, its node and
\* the ChangedFields the handler sets.
Notice(kind, id, changed) == [kind |-> kind, id |-> id, changed |-> changed]
NoNotice == Notice("", "", <<>>)

NoMsg == Msg("", "", 0)
NoPub == [event |-> NoMsg, done |-> FALSE, before |-> EmptyMap]

\* ---------------------------------------------------------- auth interceptor
Mutating == {"CreateNode", "UpdateNode", "UpdateStatus", "DeleteNode"}
Reads    == {"GetNode", "ListNodes", "WatchEvents"}
Streams  == {"WatchEvents"}

\* Only reads are marked as mutating.
mutatingMethodsReads(method) == method \in Reads

\* The mutatingMethods table.
mutatingMethods(method) == method \in Mutating

\* The admin secrets the server may be configured with, the authorization
\* values and the metadata a request may carry.  NoMD is a context without
\* metadata; otherwise the metadata holds the list of authorization values.
AdminTokens == {"s3cret", "other"}
Headers ==
  {"", "Bearer ", "Bearer s3cret", "Bearer other", "Bearer s3cret ",
   "Bearer  s3cret", "bearer s3cret", "Basic s3cret", "s3cret", "Bearer"}
NoMD == [ok |-> FALSE, authorization |-> <<>>]
Metadatas ==
  {NoMD}
  \cup {[ok |-> TRUE, authorization |-> v] :
          v \in {<<>>} \cup {<<h>> : h \in Headers}
                \cup {<<h, g>> : h, g \in {"Bearer s3cret", "Bearer other"}}}

\* What the handler behind the gate returns when it is invoked.
HandlerResults == {"OK", "NOT_FOUND", "INTERNAL"}

HasPrefix(str, prefix) ==
  Len(str) >= Len(prefix) /\ SubSeq(str, 1, Len(prefix)) = prefix
TrimPrefix(str, prefix) ==
  IF HasPrefix(str, prefix) THEN SubSeq(str, Len(prefix) + 1, Len(str)) ELSE str

\* Any Bearer-prefixed value is accepted.
validateTokenAnyBearer(md, expectedToken) ==
  IF ~md.ok THEN "UNAUTHENTICATED"
  ELSE IF Len(md.authorization) = 0 THEN "UNAUTHENTICATED"
  ELSE IF ~HasPrefix(md.authorization[1], "Bearer ") THEN "UNAUTHENTICATED"
  ELSE ""

\* validateToken: the status code of its error, "" for nil.
validateToken(md, expectedToken) ==
  IF ~md.ok THEN "UNAUTHENTICATED"
  ELSE IF Len(md.authorization) = 0 THEN "UNAUTHENTICATED"
  ELSE IF ~HasPrefix(md.authorization[1], "Bearer ") THEN "UNAUTHENTICATED"
  ELSE IF TrimPrefix(md.authorization[1], "Bearer ") # expectedToken
       THEN "PERMISSION_DENIED"
  ELSE ""

NoGate == [method |-> "", md |-> NoMD, adminToken |-> "", hres |-> "",
           invoked |-> FALSE, result |-> ""]

\* The body both interceptors share: pass a method that is not in the table
\* to the handler, otherwise validate the token first.
Intercept(g) ==
  IF ~mutatingMethods(g.method)
  THEN [g EXCEPT !.invoked = TRUE, !.result = g.hres]
  ELSE IF validateToken(g.md, g.adminToken) # ""
       THEN [g EXCEPT !.result = validateToken(g.md, g.adminToken)]
       ELSE [g EXCEPT !.invoked = TRUE, !.result = g.hres]

\* ------------------------------------------------------------------- Init
\* Everything but the keyspace, as NewNodeService and NewBroker leave it.
\* No enumeration, no broker task, no aggregator and no retry is running.
NoPage  == [state |-> "off"]
NoBk    == [state |-> "off"]
NoAgg   == [state |-> "off"]
NoRetry == [state |-> "off"]
InitExt == page = NoPage /\ bk = NoBk /\ agg = NoAgg /\ retry = NoRetry

InitCore ==
  /\ subscribers = EmptyMap
  /\ pc = [p \in Clients |-> "idle"]
  /\ req = [p \in Clients |-> NoReq]
  /\ old = [p \in Clients |-> NoNode]
  /\ res = [p \in Clients |-> ""]
  /\ appended = [p \in Clients |-> <<>>]
  /\ published = [p \in Clients |-> 0]
  /\ notified = [p \in Clients |-> NoNotice]
  /\ faulted = [p \in Clients |-> FALSE]
  /\ overlap = [p \in Clients |-> FALSE]
  /\ prev = NoNode
  /\ pre = EmptyRedis
  /\ ncalls = 0
  /\ faults = 0
  /\ wpc = [w \in Watchers |-> "off"]
  /\ tpc = [w \in Watchers |-> "off"]
  /\ ctxDone = [w \in Watchers |-> FALSE]
  /\ lastID = [w \in Watchers |-> 0]
  /\ batch = [w \in Watchers |-> <<>>]
  /\ subAt = [w \in Watchers |-> 0]
  /\ delivered = [w \in Watchers |-> <<>>]
  /\ clock = 0
  /\ gate = NoGate
  /\ pub = NoPub
  /\ former = EmptyMap

InitRest == InitCore /\ InitExt

\* The server starts on an empty Redis.
Init == redis = EmptyRedis /\ InitRest

\* The keyspace a completed CreateNode{i1, VM, a, UP} leaves in an empty Redis.
SeedNode  == [id |-> "i1", type |-> "VM", name |-> "a", status |-> "UP",
              last_seen |-> 0,
    labels |-> NoLabels, metadata |-> ""]
SeedRedis == appendEvent(saveNode(EmptyRedis, SeedNode), "CREATED", "i1", <<>>)

\* The server starts on a Redis that is empty or holds one node.
InitSeeded == redis \in {EmptyRedis, SeedRedis} /\ InitRest

\* The server starts on a Redis that holds one node.
InitWatch == redis = SeedRedis /\ InitRest

\* A server configured with an admin secret is given one RPC.
InitAuth ==
  /\ gate \in [method : Mutating \cup Reads, md : Metadatas,
                adminToken : AdminTokens, hres : HandlerResults,
                invoked : {FALSE}, result : {""}]
  /\ redis = EmptyRedis
  /\ subscribers = EmptyMap
  /\ pc = [p \in Clients |-> "idle"]
  /\ req = [p \in Clients |-> NoReq]
  /\ old = [p \in Clients |-> NoNode]
  /\ res = [p \in Clients |-> ""]
  /\ appended = [p \in Clients |-> <<>>]
  /\ published = [p \in Clients |-> 0]
  /\ notified = [p \in Clients |-> NoNotice]
  /\ faulted = [p \in Clients |-> FALSE]
  /\ overlap = [p \in Clients |-> FALSE]
  /\ prev = NoNode
  /\ pre = EmptyRedis
  /\ ncalls = 0
  /\ faults = 0
  /\ wpc = [w \in Watchers |-> "off"]
  /\ tpc = [w \in Watchers |-> "off"]
  /\ ctxDone = [w \in Watchers |-> FALSE]
  /\ lastID = [w \in Watchers |-> 0]
  /\ batch = [w \in Watchers |-> <<>>]
  /\ subAt = [w \in Watchers |-> 0]
  /\ delivered = [w \in Watchers |-> <<>>]
  /\ clock = 0
  /\ pub = NoPub
  /\ former = EmptyMap
  /\ InitExt

\* ------------------------------------------------------- handler plumbing
Finish(p, code) ==
  /\ pc' = [pc EXCEPT ![p] = "idle"]
  /\ res' = [res EXCEPT ![p] = code]

Goto(p, label) ==
  /\ pc' = [pc EXCEPT ![p] = label]
  /\ UNCHANGED res

\* The round trip completes.
NoFault == UNCHANGED <<faults, faulted>>

\* The round trip returns an error (connection lost, deadline exceeded);
\* nothing of it is applied.
Fault(p) ==
  /\ faults < MaxFaults
  /\ faults' = faults + 1
  /\ faulted' = [faulted EXCEPT ![p] = TRUE]

\* A write round trip; the entries it adds to the log are credited to p.
Write(p, r2) ==
  /\ redis' = r2
  /\ appended' = [appended EXCEPT ![p] =
       @ \o [i \in 1..(Len(r2.events) - Len(redis.events)) |->
               Len(redis.events) + i]]

NoWrite == UNCHANGED <<redis, appended>>

\* The log sequence of the event p's RPC appended (0: it appended none).
MySeq(p) == IF appended[p] = <<>> THEN 0 ELSE appended[p][Len(appended[p])]

\* s.broker.Publish(ctx, ...) at the end of a mutating handler.
Notify(p, kind, changed) ==
  /\ subscribers' = Publish(subscribers, Msg(kind, req[p].id, MySeq(p)))
  /\ published' = [published EXCEPT ![p] = @ + Sends(subscribers, subscribers')]
  /\ notified' = [notified EXCEPT ![p] = Notice(kind, req[p].id, changed)]

ReqNode(r) == [id |-> r.id, type |-> r.type, name |-> r.name, status |-> r.status,
               last_seen |-> r.last_seen,
               labels |-> r.labels, metadata |-> r.metadata]

\* Ids that appear nowhere: what uuid.New() can return.
UsedIds ==
  (DOMAIN redis.hash) \cup redis.all
    \cup {redis.events[i].id : i \in 1..Len(redis.events)}
    \cup {req[p].id : p \in Clients}
FreshIds == Ids \ UsedIds

\* The requests a client can send.  A request that fails validation stands
\* for all of its kind.
Invalid ==
  {[op |-> "CreateNode", id |-> "", type |-> "VM", name |-> "", status |-> "UP",
    last_seen |-> Nil,
    labels |-> NoLabels, metadata |-> ""],
   [op |-> "UpdateNode", id |-> "", type |-> "VM", name |-> "a", status |-> "UP",
    last_seen |-> Nil,
    labels |-> NoLabels, metadata |-> ""],
   [op |-> "UpdateStatus", id |-> "", type |-> "", name |-> "", status |-> "UP",
    last_seen |-> Nil,
    labels |-> NoLabels, metadata |-> ""],
   [op |-> "DeleteNode", id |-> "", type |-> "", name |-> "", status |-> "",
    last_seen |-> Nil,
    labels |-> NoLabels, metadata |-> ""]}

\* More requests that fail validation: no node, an unspecified type, an
\* unspecified status.
InvalidMore ==
  {[op |-> "CreateNode", id |-> "", type |-> "", name |-> "", status |-> "",
    last_seen |-> Nil,
    labels |-> NoLabels, metadata |-> ""],
   [op |-> "CreateNode", id |-> "", type |-> "", name |-> "a", status |-> "UP",
    last_seen |-> Nil,
    labels |-> NoLabels, metadata |-> ""],
   [op |-> "UpdateNode", id |-> "", type |-> "", name |-> "", status |-> "",
    last_seen |-> Nil,
    labels |-> NoLabels, metadata |-> ""],
   [op |-> "UpdateStatus", id |-> "i1", type |-> "", name |-> "",
    status |-> "UNSPECIFIED", last_seen |-> Nil,
    labels |-> NoLabels, metadata |-> ""]}

RequestsOver(ids, types, names, statuses, seens) ==
  [op : {"CreateNode"}, id : ids, type : types,
   name : names, status : statuses, last_seen : seens,
        labels : {NoLabels}, metadata : {""}]
  \cup [op : {"UpdateNode"}, id : ids \ {""}, type : types,
        name : names, status : statuses \ {"UNSPECIFIED"}, last_seen : seens,
        labels : {NoLabels}, metadata : {""}]
  \cup [op : {"UpdateStatus"}, id : ids \ {""}, type : {""},
        name : {""}, status : statuses \ {"UNSPECIFIED"}, last_seen : {Nil},
        labels : {NoLabels}, metadata : {""}]
  \cup [op : {"DeleteNode"}, id : ids \ {""}, type : {""},
        name : {""}, status : {""}, last_seen : {Nil},
        labels : {NoLabels}, metadata : {""}]

\* Sequential runs draw from every id, type, name and status.
SeqRequests  ==
  RequestsOver(Ids \cup {""}, Types, Names, Statuses, {Nil}) \cup Invalid
\* Concurrent runs keep one type.
ConcRequests ==
  RequestsOver(Ids \cup {""}, {"VM"}, Names, Statuses, {Nil}) \cup Invalid
\* Runs with a watcher work on one node.
WatchRequests == RequestsOver({"i1"}, {"VM"}, {"a"}, Statuses, {Nil})
\* Runs on the fields of one record: the status may be left unset, and the
\* request may carry any last_seen.
FieldRequests ==
  RequestsOver({"", "i1"}, {"VM"}, {"a"}, {"UNSPECIFIED", "UP"},
               {Nil, 0, MaxTime})
  \cup Invalid \cup InvalidMore

\* Updates of the seeded node that keep it, change one of its fields, or
\* change all of them.
ChangeBase ==
  [op |-> "UpdateNode", id |-> "i1", type |-> "VM", name |-> "a",
   status |-> "UP", last_seen |-> Nil, labels |-> NoLabels, metadata |-> ""]
ChangeRequests ==
  {ChangeBase,
   [ChangeBase EXCEPT !.name = "b"],
   [ChangeBase EXCEPT !.type = "BAREMETAL"],
   [ChangeBase EXCEPT !.status = "DOWN"],
   [ChangeBase EXCEPT !.labels = {<<"env", "dev">>}],
   [ChangeBase EXCEPT !.labels = {<<"env", "prod">>}],
   [ChangeBase EXCEPT !.labels = {<<"zone", "dev">>, <<"env", "dev">>}],
   [ChangeBase EXCEPT !.metadata = "{}"],
   [ChangeBase EXCEPT !.name = "b", !.type = "BAREMETAL", !.status = "DOWN",
                      !.labels = {<<"env", "prod">>}, !.metadata = "{}"]}

\* Every check passes.
ValidAlways(r) == TRUE

\* The argument checks of the NodeService handlers.  A request without a
\* node has the fields of NoNode; type "" is NODE_TYPE_UNSPECIFIED.
Valid(r) ==
  CASE r.op = "CreateNode"   -> ReqNode(r) # NoNode /\ r.name # "" /\ r.type # ""
    [] r.op = "UpdateNode"   -> ReqNode(r) # NoNode /\ r.id # ""
    [] r.op = "UpdateStatus" -> r.id # "" /\ r.status # "UNSPECIFIED"
    [] OTHER                 -> r.id # ""

FirstStep(op) ==
  CASE op = "CreateNode"   -> "c_get"
    [] op = "UpdateNode"   -> "u_get"
    [] op = "UpdateStatus" -> "s_get"
    [] OTHER               -> "d_sget"

\* What a sequential run remembers of the RPC before the current one: the
\* node it created, if it was a successful CreateNode.
Created(r, code) ==
  IF r.op = "CreateNode" /\ code = "OK" THEN ReqNode(r) ELSE NoNode

\* A client sends an RPC.  The handler validates the request; CreateNode
\* generates the id and stamps last_seen when the request has none.
Call(p, hist, R) ==
  /\ pc[p] = "idle"
  /\ ncalls < (IF hist THEN MaxSeqCalls ELSE MaxCalls)
  /\ ncalls' = ncalls + 1
  /\ \E r \in R :
       \E i \in (IF r.op = "CreateNode" /\ r.id = "" /\ Valid(r)
                 THEN FreshIds ELSE {r.id}) :
         /\ req' = [req EXCEPT ![p] =
              [r EXCEPT !.id = i,
                        !.last_seen = IF r.op = "CreateNode" /\ Valid(r) /\ @ = Nil
                                      THEN clock ELSE @]]
         /\ IF Valid(r)
            THEN /\ Goto(p, FirstStep(r.op))
                 /\ overlap' = [q \in Clients |->
                      IF q = p THEN \E o \in Clients \ {p} : pc[o] # "idle"
                      ELSE IF pc[q] # "idle" THEN TRUE ELSE overlap[q]]
            ELSE /\ Finish(p, "INVALID_ARGUMENT")
                 /\ overlap' = [overlap EXCEPT ![p] = FALSE]
  /\ old' = [old EXCEPT ![p] = NoNode]
  /\ appended' = [appended EXCEPT ![p] = <<>>]
  /\ published' = [published EXCEPT ![p] = 0]
  /\ notified' = [notified EXCEPT ![p] = NoNotice]
  /\ faulted' = [faulted EXCEPT ![p] = FALSE]
  /\ prev' = IF hist THEN Created(req[p], res[p]) ELSE prev
  /\ pre' = IF hist THEN redis ELSE pre
  /\ UNCHANGED <<redis, subscribers, faults, watchVars, auxVars>>

\* ------------------------------------------------------------- CreateNode
\* GET node:byname:{type}:{name}.  The handler rejects the request only
\* when the read succeeds and returns an id; on a read error it goes on.
CGet(p) ==
  /\ pc[p] = "c_get"
  /\ \/ /\ NoFault
        /\ IF KeyTaken(redis, req[p].type, req[p].name)
           THEN Finish(p, "INTERNAL")
           ELSE Goto(p, "c_save")
     \/ /\ Fault(p)
        /\ Goto(p, "c_save")
  /\ NoWrite
  /\ UNCHANGED <<subscribers, req, old, published, notified, overlap, prev, pre,
                 ncalls, watchVars, auxVars>>

CSave(p) ==
  /\ pc[p] = "c_save"
  /\ \/ NoFault /\ Write(p, saveNode(redis, ReqNode(req[p]))) /\ Goto(p, "c_append")
     \/ Fault(p) /\ NoWrite /\ Finish(p, "INTERNAL")
  /\ UNCHANGED <<subscribers, req, old, published, notified, overlap, prev, pre,
                 ncalls, watchVars, auxVars>>

CAppend(p) ==
  /\ pc[p] = "c_append"
  /\ \/ /\ NoFault
        /\ Write(p, appendEvent(redis, "CREATED", req[p].id, <<>>))
        /\ Goto(p, "c_pub")
     \/ Fault(p) /\ NoWrite /\ Finish(p, "INTERNAL")
  /\ UNCHANGED <<subscribers, req, old, published, notified, overlap, prev, pre,
                 ncalls, watchVars, auxVars>>

CPub(p) ==
  /\ pc[p] = "c_pub"
  /\ Notify(p, "CREATED", <<>>)
  /\ Finish(p, "OK")
  /\ NoWrite /\ NoFault
  /\ UNCHANGED <<req, old, overlap, prev, pre, ncalls, watchVars, auxVars>>

\* ------------------------------------------------------------- UpdateNode
\* GetNode, then node.LastSeen = now on the request's node.
UGetUpsert(p) ==
  /\ pc[p] = "u_get"
  /\ \/ /\ NoFault
        /\ IF Exists(redis, req[p].id)
           THEN /\ old' = [old EXCEPT ![p] = GetNode(redis, req[p].id)]
                /\ req' = [req EXCEPT ![p].last_seen = clock]
                /\ Goto(p, "u_delidx")
           ELSE /\ UNCHANGED old
                /\ req' = [req EXCEPT ![p].last_seen = clock]
                /\ Goto(p, "u_save")
     \/ Fault(p) /\ UNCHANGED <<old, req>> /\ Finish(p, "INTERNAL")
  /\ NoWrite
  /\ UNCHANGED <<subscribers, published, notified, overlap, prev, pre, ncalls,
                 watchVars, auxVars>>

\* Store.UpdateNode begins with GetNode and returns its error.
UGet(p) ==
  /\ pc[p] = "u_get"
  /\ \/ /\ NoFault
        /\ IF Exists(redis, req[p].id)
           THEN /\ old' = [old EXCEPT ![p] = GetNode(redis, req[p].id)]
                /\ req' = [req EXCEPT ![p].last_seen = clock]
                /\ Goto(p, "u_delidx")
           ELSE /\ UNCHANGED <<old, req>>
                /\ Finish(p, "INTERNAL")
     \/ Fault(p) /\ UNCHANGED <<old, req>> /\ Finish(p, "INTERNAL")
  /\ NoWrite
  /\ UNCHANGED <<subscribers, published, notified, overlap, prev, pre, ncalls,
                 watchVars, auxVars>>

UDelIdx(p) ==
  /\ pc[p] = "u_delidx"
  /\ \/ NoFault /\ Write(p, deleteIndexes(redis, old[p])) /\ Goto(p, "u_save")
     \/ Fault(p) /\ NoWrite /\ Finish(p, "INTERNAL")
  /\ UNCHANGED <<subscribers, req, old, published, notified, overlap, prev, pre,
                 ncalls, watchVars, auxVars>>

USave(p) ==
  /\ pc[p] = "u_save"
  /\ \/ NoFault /\ Write(p, saveNode(redis, ReqNode(req[p]))) /\ Goto(p, "u_append")
     \/ Fault(p) /\ NoWrite /\ Finish(p, "INTERNAL")
  /\ UNCHANGED <<subscribers, req, old, published, notified, overlap, prev, pre,
                 ncalls, watchVars, auxVars>>

UAppend(p) ==
  /\ pc[p] = "u_append"
  /\ \/ /\ NoFault
        /\ Write(p, appendEvent(redis, "UPDATED", req[p].id,
                                getChangedFields(old[p], ReqNode(req[p]))))
        /\ Goto(p, "u_pub")
     \/ Fault(p) /\ NoWrite /\ Finish(p, "INTERNAL")
  /\ UNCHANGED <<subscribers, req, old, published, notified, overlap, prev, pre,
                 ncalls, watchVars, auxVars>>

\* The handler sets no ChangedFields on the message.
UPub(p) ==
  /\ pc[p] = "u_pub"
  /\ Notify(p, "UPDATED", <<>>)
  /\ Finish(p, "OK")
  /\ NoWrite /\ NoFault
  /\ UNCHANGED <<req, old, overlap, prev, pre, ncalls, watchVars, auxVars>>

\* ----------------------------------------------------------- UpdateStatus
\* GetNode, then node.LastSeen = now on the node read; nothing more is
\* written when the status is the one stored.
SGet(p) ==
  /\ pc[p] = "s_get"
  /\ \/ /\ NoFault
        /\ IF Exists(redis, req[p].id)
           THEN /\ old' = [old EXCEPT ![p] =
                       [GetNode(redis, req[p].id) EXCEPT !.last_seen = clock]]
                /\ IF StatusChanged(GetNode(redis, req[p].id), req[p].status)
                   THEN Goto(p, "s_delidx")
                   ELSE Goto(p, "s_pub")
           ELSE /\ UNCHANGED old
                /\ Finish(p, "INTERNAL")
     \/ Fault(p) /\ UNCHANGED old /\ Finish(p, "INTERNAL")
  /\ NoWrite
  /\ UNCHANGED <<subscribers, req, published, notified, overlap, prev, pre, ncalls,
                 watchVars, auxVars>>

SDelIdx(p) ==
  /\ pc[p] = "s_delidx"
  /\ \/ /\ NoFault
        /\ Write(p, deleteIndexes(redis, StatusNode(old[p], req[p].status)))
        /\ Goto(p, "s_save")
     \/ Fault(p) /\ NoWrite /\ Finish(p, "INTERNAL")
  /\ UNCHANGED <<subscribers, req, old, published, notified, overlap, prev, pre,
                 ncalls, watchVars, auxVars>>

SSave(p) ==
  /\ pc[p] = "s_save"
  /\ \/ /\ NoFault
        /\ Write(p, saveNode(redis, StatusNode(old[p], req[p].status)))
        /\ Goto(p, "s_append")
     \/ Fault(p) /\ NoWrite /\ Finish(p, "INTERNAL")
  /\ UNCHANGED <<subscribers, req, old, published, notified, overlap, prev, pre,
                 ncalls, watchVars, auxVars>>

SAppend(p) ==
  /\ pc[p] = "s_append"
  /\ \/ /\ NoFault
        /\ Write(p, appendEvent(redis, "UPDATED", req[p].id, <<"status">>))
        /\ Goto(p, "s_pub")
     \/ Fault(p) /\ NoWrite /\ Finish(p, "INTERNAL")
  /\ UNCHANGED <<subscribers, req, old, published, notified, overlap, prev, pre,
                 ncalls, watchVars, auxVars>>

\* The handler publishes, with ChangedFields ["status"], whether or not the
\* Store changed the status.
SPub(p) ==
  /\ pc[p] = "s_pub"
  /\ Notify(p, "UPDATED", <<"status">>)
  /\ Finish(p, "OK")
  /\ NoWrite /\ NoFault
  /\ UNCHANGED <<req, old, overlap, prev, pre, ncalls, watchVars, auxVars>>

\* ------------------------------------------------------------- DeleteNode
\* The handler's own GetNode: any error is NOT_FOUND.
DSGet(p) ==
  /\ pc[p] = "d_sget"
  /\ \/ /\ NoFault
        /\ IF Exists(redis, req[p].id)
           THEN Goto(p, "d_get")
           ELSE Finish(p, "NOT_FOUND")
     \/ Fault(p) /\ Finish(p, "NOT_FOUND")
  /\ NoWrite
  /\ UNCHANGED <<subscribers, req, old, published, notified, overlap, prev, pre,
                 ncalls, watchVars, auxVars>>

\* The GetNode of Store.DeleteNode.
DGet(p) ==
  /\ pc[p] = "d_get"
  /\ \/ /\ NoFault
        /\ IF Exists(redis, req[p].id)
           THEN /\ old' = [old EXCEPT ![p] = GetNode(redis, req[p].id)]
                /\ Goto(p, "d_delidx")
           ELSE /\ UNCHANGED old
                /\ Finish(p, "INTERNAL")
     \/ Fault(p) /\ UNCHANGED old /\ Finish(p, "INTERNAL")
  /\ NoWrite
  /\ UNCHANGED <<subscribers, req, published, notified, overlap, prev, pre, ncalls,
                 watchVars, auxVars>>

DDelIdx(p) ==
  /\ pc[p] = "d_delidx"
  /\ \/ NoFault /\ Write(p, deleteIndexes(redis, old[p])) /\ Goto(p, "d_del")
     \/ Fault(p) /\ NoWrite /\ Finish(p, "INTERNAL")
  /\ UNCHANGED <<subscribers, req, old, published, notified, overlap, prev, pre,
                 ncalls, watchVars, auxVars>>

DDel(p) ==
  /\ pc[p] = "d_del"
  /\ \/ NoFault /\ Write(p, deleteRecord(redis, req[p].id)) /\ Goto(p, "d_append")
     \/ Fault(p) /\ NoWrite /\ Finish(p, "INTERNAL")
  /\ UNCHANGED <<subscribers, req, old, published, notified, overlap, prev, pre,
                 ncalls, watchVars, auxVars>>

DAppend(p) ==
  /\ pc[p] = "d_append"
  /\ \/ /\ NoFault
        /\ Write(p, appendEvent(redis, "DELETED", old[p].id, <<>>))
        /\ Goto(p, "d_pub")
     \/ Fault(p) /\ NoWrite /\ Finish(p, "INTERNAL")
  /\ UNCHANGED <<subscribers, req, old, published, notified, overlap, prev, pre,
                 ncalls, watchVars, auxVars>>

DPub(p) ==
  /\ pc[p] = "d_pub"
  /\ Notify(p, "DELETED", <<>>)
  /\ Finish(p, "OK")
  /\ NoWrite /\ NoFault
  /\ UNCHANGED <<req, old, overlap, prev, pre, ncalls, watchVars, auxVars>>

\* One round trip of the handler client p is in.
Handler(p) ==
  \/ CGet(p) \/ CSave(p) \/ CAppend(p) \/ CPub(p)
  \/ UGet(p) \/ UDelIdx(p) \/ USave(p) \/ UAppend(p) \/ UPub(p)
  \/ SGet(p) \/ SDelIdx(p) \/ SSave(p) \/ SAppend(p) \/ SPub(p)
  \/ DSGet(p) \/ DGet(p) \/ DDelIdx(p) \/ DDel(p) \/ DAppend(p) \/ DPub(p)


\* ------------------------------------------------------------ WatchEvents
\* The handler subscribes and starts the polling goroutine with lastID "0".
Watch(w) ==
  /\ wpc[w] = "off"
  /\ subscribers' = Subscribe(subscribers, w)
  /\ wpc' = [wpc EXCEPT ![w] = "run"]
  /\ tpc' = [tpc EXCEPT ![w] = "poll"]
  /\ lastID' = [lastID EXCEPT ![w] = 0]
  /\ subAt' = [subAt EXCEPT ![w] = Len(redis.events)]
  /\ UNCHANGED <<redis, clientVars, auxVars, ctxDone, batch, delivered>>

\* Store.GetEventStream: what XREAD COUNT 100 after lastID returns.
GetEventStream(r, last) ==
  [i \in 1..(IF Len(r.events) - last > XReadCount
             THEN XReadCount ELSE Len(r.events) - last) |->
     [seq |-> last + i, kind |-> r.events[last + i].kind,
      id |-> r.events[last + i].id]]

\* The ticker fires and the polling goroutine calls GetEventStream.
TTick(w) ==
  /\ tpc[w] = "poll"
  /\ ~ctxDone[w]
  /\ tpc' = [tpc EXCEPT ![w] = "xread"]
  /\ UNCHANGED <<redis, subscribers, clientVars, auxVars, wpc, ctxDone, lastID,
                 batch, subAt, delivered>>

\* The XREAD returns.  It is sent with BLOCK 0 and the client puts no read
\* deadline on it, so it returns when the log has an entry past the cursor
\* and not before, whatever becomes of the context meanwhile.
TRead(w) ==
  /\ tpc[w] = "xread"
  /\ Len(redis.events) > lastID[w]
  /\ batch' = [batch EXCEPT ![w] = GetEventStream(redis, lastID[w])]
  /\ tpc' = [tpc EXCEPT ![w] = "get"]
  /\ UNCHANGED <<redis, subscribers, clientVars, auxVars, wpc, ctxDone, lastID, subAt,
                 delivered>>

\* The polling goroutine re-reads the node of the next event of the batch.
\* When the read fails or finds no node the event is skipped and the cursor
\* moves past it.
TSkip(w) ==
  /\ lastID' = [lastID EXCEPT ![w] = Head(batch[w]).seq]
  /\ batch' = [batch EXCEPT ![w] = Tail(@)]
  /\ tpc' = [tpc EXCEPT ![w] = IF Len(batch[w]) = 1 THEN "poll" ELSE "get"]

TGet(w) ==
  /\ tpc[w] = "get"
  /\ IF Exists(redis, Head(batch[w]).id) /\ ~ctxDone[w]
     THEN /\ tpc' = [tpc EXCEPT ![w] = "pub"]
          /\ UNCHANGED <<lastID, batch>>
     ELSE TSkip(w)
  /\ UNCHANGED <<redis, subscribers, clientVars, auxVars, wpc, ctxDone, subAt,
                 delivered>>

\* The polling goroutine publishes the mirror event to every subscriber.
TPub(w) ==
  /\ tpc[w] = "pub"
  /\ LET e == Head(batch[w])
         m == Msg(e.kind, e.id, e.seq)
     IN IF ctxDone[w]
        THEN subscribers' \in PublishDone(subscribers, m)
        ELSE subscribers' = Publish(subscribers, m)
  /\ TSkip(w)
  /\ UNCHANGED <<redis, clientVars, auxVars, wpc, ctxDone, subAt, delivered>>

\* The polling goroutine sees ctx.Done at its select.
TExit(w) ==
  /\ tpc[w] = "poll"
  /\ ctxDone[w]
  /\ tpc' = [tpc EXCEPT ![w] = "done"]
  /\ UNCHANGED <<redis, subscribers, clientVars, auxVars, wpc, ctxDone, lastID, batch,
                 subAt, delivered>>

\* The send loop takes the next event of its channel and sends it.
WSend(w) ==
  /\ wpc[w] = "run"
  /\ ~ctxDone[w]
  /\ subscribers[w] # <<>>
  /\ delivered' = [delivered EXCEPT ![w] = Append(@, Head(subscribers[w]))]
  /\ subscribers' = [subscribers EXCEPT ![w] = Tail(@)]
  /\ UNCHANGED <<redis, clientVars, auxVars, wpc, tpc, ctxDone, lastID, batch, subAt>>

\* stream.Send fails: the handler returns the error, the deferred
\* Unsubscribe runs and the stream context ends.
WSendFail(w) ==
  /\ wpc[w] = "run"
  /\ subscribers[w] # <<>>
  /\ subscribers' = Unsubscribe(subscribers, w)
  /\ wpc' = [wpc EXCEPT ![w] = "done"]
  /\ ctxDone' = [ctxDone EXCEPT ![w] = TRUE]
  /\ UNCHANGED <<redis, clientVars, auxVars, tpc, lastID, batch, subAt, delivered>>

\* The watcher disconnects: its stream context is cancelled.
Cancel(w) ==
  /\ wpc[w] = "run"
  /\ ~ctxDone[w]
  /\ ctxDone' = [ctxDone EXCEPT ![w] = TRUE]
  /\ UNCHANGED <<redis, subscribers, clientVars, auxVars, wpc, tpc, lastID, batch,
                 subAt, delivered>>

\* The send loop sees ctx.Done, returns, and the deferred Unsubscribe runs.
WReturn(w) ==
  /\ wpc[w] = "run"
  /\ ctxDone[w]
  /\ subscribers' = Unsubscribe(subscribers, w)
  /\ wpc' = [wpc EXCEPT ![w] = "done"]
  /\ UNCHANGED <<redis, clientVars, auxVars, tpc, ctxDone, lastID, batch, subAt,
                 delivered>>

Watcher(w) ==
  \/ Watch(w) \/ TTick(w) \/ TRead(w) \/ TGet(w) \/ TPub(w) \/ TExit(w)
  \/ WSend(w) \/ WSendFail(w) \/ Cancel(w) \/ WReturn(w)

\* ------------------------------------------------------------- wall clock
Tick ==
  /\ clock < MaxTime
  /\ clock' = clock + 1
  /\ UNCHANGED <<redis, subscribers, clientVars, watchVars, extVars, gate, pub, former>>

\* ------------------------------------------------------ the auth interceptors
\* The unary interceptor is given a unary RPC.
UnaryAuthInterceptor ==
  /\ gate.method \notin Streams
  /\ gate.result = ""
  /\ gate' = Intercept(gate)
  /\ UNCHANGED <<redis, subscribers, clientVars, watchVars, extVars, clock, pub,
                 former>>

\* The stream interceptor is given a streaming RPC.
StreamAuthInterceptor ==
  /\ gate.method \in Streams
  /\ gate.result = ""
  /\ gate' = Intercept(gate)
  /\ UNCHANGED <<redis, subscribers, clientVars, watchVars, extVars, clock, pub,
                 former>>

\* --------------------------------------------------------- the Broker alone
BrokerSubs   == {"w1", "w2", "w3"}
BrokerEvents == {Msg("UPDATED", "i1", 1), Msg("DELETED", "i1", 2)}

\* Subscribe stores a new channel under the id; a channel already stored
\* under it is dropped from the map as it is.
BSubscribe(id) ==
  /\ subscribers' = Subscribe(subscribers, id)
  /\ former' = IF id \in DOMAIN subscribers
               THEN Put(former, id, [buf |-> subscribers[id], closed |-> FALSE])
               ELSE former
  /\ pub' = NoPub
  /\ UNCHANGED <<redis, clientVars, watchVars, extVars, clock, gate>>

\* Unsubscribe closes the channel stored under the id and deletes the entry.
BUnsubscribe(id) ==
  /\ id \in DOMAIN subscribers
  /\ subscribers' = Unsubscribe(subscribers, id)
  /\ former' = Put(former, id, [buf |-> subscribers[id], closed |-> TRUE])
  /\ pub' = NoPub
  /\ UNCHANGED <<redis, clientVars, watchVars, extVars, clock, gate>>

\* Broker.Publish under a context that is live or already cancelled.
BPublish(m, done) ==
  /\ IF done THEN subscribers' \in PublishDone(subscribers, m)
             ELSE subscribers' = Publish(subscribers, m)
  /\ pub' = [event |-> m, done |-> done, before |-> subscribers]
  /\ UNCHANGED <<redis, clientVars, watchVars, extVars, clock, gate, former>>

\* The consumer of a subscription takes the next event of its channel.
BReceive(id) ==
  /\ id \in DOMAIN subscribers
  /\ subscribers[id] # <<>>
  /\ subscribers' = [subscribers EXCEPT ![id] = Tail(@)]
  /\ pub' = NoPub
  /\ UNCHANGED <<redis, clientVars, watchVars, extVars, clock, gate, former>>

\* ------------------------------------------- the Broker and its RWMutex
\* Tasks call Subscribe, Unsubscribe and Publish.  A channel is known by
\* its index in bk.chans; bk.subs is the map Broker.subscribers, bk.writer
\* and bk.readers are the holders of Broker.mu.
BkTasks == {"t1", "t2"}
BkIds   == {"w1", "w2"}
BkOps   ==
  [op : {"Subscribe", "Unsubscribe"}, id : BkIds, done : {FALSE}]
  \cup [op : {"Publish"}, id : {""}, done : BOOLEAN]
BkEvent == Msg("UPDATED", "i1", 1)

BkInit ==
  [state |-> "on", subs |-> EmptyMap, chans |-> <<>>, writer |-> "",
   readers |-> {}, tpc |-> [t \in BkTasks |-> "idle"],
   op |-> [t \in BkTasks |-> [op |-> "", id |-> "", done |-> FALSE]],
   todo |-> [t \in BkTasks |-> {}], n |-> 0]

BkFrame ==
  UNCHANGED <<redis, subscribers, clientVars, watchVars, clock, gate, pub,
              former, page, agg, retry>>

\* A task calls the Broker.
BkCall(t, o) ==
  /\ bk.tpc[t] = "idle"
  /\ bk.n < MaxBkCalls
  /\ bk' = [bk EXCEPT !.n = @ + 1, !.op[t] = o,
                      !.tpc[t] = IF o.op = "Publish" THEN "rlock" ELSE "lock"]
  /\ BkFrame

\* The lock is taken with no reader reading and no writer writing.
BkLockNoWait(t) ==
  /\ bk.tpc[t] = "lock"
  /\ bk' = [bk EXCEPT !.writer = t,
                      !.tpc[t] = IF bk.op[t].op = "Subscribe" THEN "sub"
                                 ELSE "unsub"]
  /\ BkFrame

\* b.mu.Lock().
BkLock(t) ==
  /\ bk.tpc[t] = "lock"
  /\ bk.writer = "" /\ bk.readers = {}
  /\ bk' = [bk EXCEPT !.writer = t,
                      !.tpc[t] = IF bk.op[t].op = "Subscribe" THEN "sub"
                                 ELSE "unsub"]
  /\ BkFrame

\* Subscribe: a new channel is stored under the id; deferred Unlock.
BkSubscribe(t) ==
  /\ bk.tpc[t] = "sub"
  /\ bk' = [bk EXCEPT
       !.chans = Append(@, [buf |-> <<>>, closed |-> FALSE, late |-> FALSE]),
       !.subs  = Put(@, bk.op[t].id, Len(bk.chans) + 1),
       !.writer = "", !.tpc[t] = "idle"]
  /\ BkFrame

\* Unsubscribe: close(sub.Channel) if the id is in the map, else Unlock.
BkClose(t) ==
  /\ bk.tpc[t] = "unsub"
  /\ IF bk.op[t].id \in DOMAIN bk.subs
     THEN bk' = [bk EXCEPT !.chans[bk.subs[bk.op[t].id]].closed = TRUE,
                          !.tpc[t] = "delete"]
     ELSE bk' = [bk EXCEPT !.writer = "", !.tpc[t] = "idle"]
  /\ BkFrame

\* Unsubscribe: delete(b.subscribers, id); deferred Unlock.
BkDelete(t) ==
  /\ bk.tpc[t] = "delete"
  /\ bk' = [bk EXCEPT !.subs = Remove(@, bk.op[t].id),
                      !.writer = "", !.tpc[t] = "idle"]
  /\ BkFrame

\* b.mu.RLock(), and the range over the map begins.
BkRLock(t) ==
  /\ bk.tpc[t] = "rlock"
  /\ bk.writer = ""
  /\ bk' = [bk EXCEPT !.readers = @ \cup {t},
                      !.todo[t] = {bk.subs[id] : id \in DOMAIN bk.subs},
                      !.tpc[t] = "range"]
  /\ BkFrame

\* The select of Publish at the next subscriber: the send when the buffer
\* has room (a send on a closed channel panics; it is recorded in late),
\* the return when the context is done, the default when neither is ready.
BkSelect(t) ==
  /\ bk.tpc[t] = "range"
  /\ \E h \in bk.todo[t] :
       \/ /\ bk.chans[h].closed
          /\ bk' = [bk EXCEPT !.chans[h].late = TRUE, !.todo[t] = {}]
       \/ /\ ~bk.chans[h].closed /\ Len(bk.chans[h].buf) < MaxBuf
          /\ bk' = [bk EXCEPT !.chans[h].buf = Append(@, BkEvent),
                              !.todo[t] = @ \ {h}]
       \/ /\ ~bk.chans[h].closed /\ bk.op[t].done
          /\ bk' = [bk EXCEPT !.todo[t] = {}]
       \/ /\ ~bk.chans[h].closed /\ ~bk.op[t].done
          /\ Len(bk.chans[h].buf) >= MaxBuf
          /\ bk' = [bk EXCEPT !.todo[t] = @ \ {h}]
  /\ BkFrame

\* The range is over or Publish returned: deferred RUnlock.
BkRUnlock(t) ==
  /\ bk.tpc[t] = "range"
  /\ bk.todo[t] = {}
  /\ bk' = [bk EXCEPT !.readers = @ \ {t}, !.tpc[t] = "idle"]
  /\ BkFrame

\* The consumer of a channel takes its next event.
BkReceive(h) ==
  /\ h \in 1..Len(bk.chans)
  /\ bk.chans[h].buf # <<>>
  /\ bk' = [bk EXCEPT !.chans[h].buf = Tail(@)]
  /\ BkFrame

\* ------------------------------------------- the client-side Aggregator
\* One goroutine calls SetNodes, HandleEvent, Snapshot and Subscribe; the
\* sampleLoop goroutine runs sample() at every tick.  agg.writer and
\* agg.readers are the holders of Aggregator.mu ("s" is the sampler, "g" the
\* caller); sync.RWMutex is not reentrant.
AggNodes ==
  [id : {"i1", "i2"}, status : {"UP", "DOWN"}, type : {"VM", "BAREMETAL"}]
AggEvents == [kind : {"CREATED", "UPDATED", "DELETED"}, node : AggNodes]
\* The node lists SetNodes is given: the nodes of a listing, one to an id.
AggLists ==
  {l \in SUBSET {n \in AggNodes : n.status = "UP" /\ n.type = "VM"} :
     \A x, y \in l : x.id = y.id => x = y}
AggCalls ==
  [op : {"HandleEvent"}, event : AggEvents, nodes : {{}}]
  \cup [op : {"SetNodes"}, event : {CHOOSE e \in AggEvents : TRUE}, nodes : AggLists]
  \cup [op : {"Snapshot", "Subscribe"}, event : {CHOOSE e \in AggEvents : TRUE},
         nodes : {{}}]
NoCounts(S) == [x \in S |-> 0]
AggStatuses == {"UP", "DOWN"}
AggTypes    == {"VM", "BAREMETAL"}

\* NewAggregator: empty maps, no subscriber, the sampleLoop started.
AggInit ==
  [state |-> "on", writer |-> "", readers |-> {},
   nodes |-> EmptyMap,
   statusCounts |-> NoCounts(AggStatuses), typeCounts |-> NoCounts(AggTypes),
   totalEvents |-> 0, eventsLastSec |-> 0, eventBuffer |-> <<>>,
   subscribed |-> FALSE, ch |-> <<>>,
   gpc |-> "idle", call |-> CHOOSE c \in AggCalls : c.op = "Snapshot",
   spc |-> "wait", n |-> 0, set |-> FALSE]

AggFrame ==
  UNCHANGED <<redis, subscribers, clientVars, watchVars, clock, gate, pub,
              former, page, bk, retry>>

\* The counts after HandleEvent's switch.
HandleEvent(a, e) ==
  LET id  == e.node.id
      has == id \in DOMAIN a.nodes
      rec == [status |-> e.node.status, type |-> e.node.type]
      bump(f, k, d) == [f EXCEPT ![k] = @ + d]
  IN CASE e.kind = "CREATED" ->
            [a EXCEPT !.nodes = Put(@, id, rec),
                      !.statusCounts = bump(@, rec.status, 1),
                      !.typeCounts = bump(@, rec.type, 1)]
       [] e.kind = "UPDATED" ->
            [a EXCEPT !.nodes = Put(@, id, rec),
                      !.statusCounts =
                         IF has /\ a.nodes[id].status # rec.status
                         THEN bump(bump(@, a.nodes[id].status, -1), rec.status, 1)
                         ELSE @,
                      !.typeCounts =
                         IF has /\ a.nodes[id].type # rec.type
                         THEN bump(bump(@, a.nodes[id].type, -1), rec.type, 1)
                         ELSE @]
       [] OTHER ->
            IF has
            THEN [a EXCEPT !.nodes = Remove(@, id),
                           !.statusCounts = bump(@, a.nodes[id].status, -1),
                           !.typeCounts = bump(@, a.nodes[id].type, -1)]
            ELSE a

\* The maps after SetNodes.
SetNodes(a, l) ==
  [a EXCEPT
     !.nodes = [id \in {n.id : n \in l} |->
                  LET n == CHOOSE x \in l : x.id = id
                  IN [status |-> n.status, type |-> n.type]],
     !.statusCounts = [st \in AggStatuses |->
                         Cardinality({n \in l : n.status = st})],
     !.typeCounts = [t \in AggTypes |-> Cardinality({n \in l : n.type = t})],
     !.set = TRUE]

\* The caller begins a call.  Subscribe registers its channel under
\* subscribersMu and goes on to Snapshot.
AggCall(c) ==
  /\ agg.gpc = "idle"
  /\ agg.n < MaxAggCalls
  /\ c.op = "Subscribe" => ~agg.subscribed
  /\ agg' = [agg EXCEPT !.n = @ + 1, !.call = c,
                        !.subscribed = @ \/ c.op = "Subscribe",
                        !.gpc = IF c.op \in {"HandleEvent", "SetNodes"}
                                THEN "lock" ELSE "rlock"]
  /\ AggFrame

\* agg.mu.Lock() of HandleEvent and SetNodes.
AggLock ==
  /\ agg.gpc = "lock"
  /\ agg.writer = "" /\ agg.readers = {}
  /\ agg' = [agg EXCEPT !.writer = "g", !.gpc = "body"]
  /\ AggFrame

\* The body of HandleEvent or SetNodes and the deferred Unlock.
AggBody ==
  /\ agg.gpc = "body"
  /\ agg' = [(IF agg.call.op = "SetNodes"
              THEN SetNodes(agg, agg.call.nodes)
              ELSE [HandleEvent(agg, agg.call.event) EXCEPT
                      !.totalEvents = @ + 1, !.eventsLastSec = @ + 1])
             EXCEPT !.writer = "", !.gpc = "idle"]
  /\ AggFrame

\* Snapshot is entered by the caller ("g": Snapshot and Subscribe) and by
\* the sampler ("s": sample); AggPc is where each of them stands.
AggTasks == {"g", "s"}
AggPc(t) == IF t = "g" THEN agg.gpc ELSE agg.spc

\* Snapshot: agg.mu.RLock(), granted while no goroutine holds the write lock.
AggRLock(t) ==
  /\ AggPc(t) = "rlock"
  /\ agg.writer = ""
  /\ agg' = IF t = "g"
            THEN [agg EXCEPT !.readers = @ \cup {t}, !.gpc = "snap"]
            ELSE [agg EXCEPT !.readers = @ \cup {t}, !.spc = "snap"]
  /\ AggFrame

\* Snapshot copies the counts and returns through its deferred RUnlock.
\* Subscribe then sends the snapshot on its new channel; sample then calls
\* agg.mu.Unlock() and offers the snapshot to every subscriber without
\* blocking.
AggSnapshot(t) ==
  /\ AggPc(t) = "snap"
  /\ agg' = IF t = "g"
            THEN [agg EXCEPT !.readers = @ \ {t}, !.gpc = "idle",
                             !.ch = IF agg.call.op = "Subscribe"
                                    THEN Append(@, Cardinality(DOMAIN agg.nodes))
                                    ELSE @]
            ELSE [agg EXCEPT !.readers = @ \ {t}, !.writer = "",
                             !.spc = "wait",
                             !.ch = IF agg.subscribed /\ Len(@) < 1
                                    THEN Append(@, Cardinality(DOMAIN agg.nodes))
                                    ELSE @]
  /\ AggFrame

\* The subscriber takes a snapshot from its channel.
AggReceive ==
  /\ agg.ch # <<>>
  /\ agg' = [agg EXCEPT !.ch = Tail(@)]
  /\ AggFrame

\* sampleLoop: the ticker fires, sample() is called.
SampleTick ==
  /\ agg.spc = "wait"
  /\ agg' = [agg EXCEPT !.spc = "lock"]
  /\ AggFrame

\* sample: agg.mu.Lock().
SampleLock ==
  /\ agg.spc = "lock"
  /\ agg.writer = "" /\ agg.readers = {}
  /\ agg' = [agg EXCEPT !.writer = "s", !.spc = "push"]
  /\ AggFrame

\* sample: the counters are pushed to the ring buffers and reset; the next
\* statement is snap := agg.Snapshot().
SamplePush ==
  /\ agg.spc = "push"
  /\ agg' = [agg EXCEPT !.eventBuffer = Append(@, agg.eventsLastSec),
                        !.eventsLastSec = 0, !.spc = "rlock"]
  /\ AggFrame

\* ------------------------------------------------------ RetryWithBackoff
\* DefaultRetryConfig, the durations in milliseconds and the jitter in
\* hundredths.
InitialDelay == 100
MaxDelay     == 5000
Multiplier   == 2
Jitter       == 20

\* What fn returns: nil, an error with a gRPC status, or an error without.
FnErrors ==
  {"Unavailable", "DeadlineExceeded", "ResourceExhausted", "Aborted",
   "NotFound", "plain"}
FnResults == {"nil"} \cup FnErrors

isRetryableAny(err) == TRUE
isRetryable(err) ==
  /\ err # "plain"
  /\ err \in {"Unavailable", "DeadlineExceeded", "ResourceExhausted", "Aborted"}

\* addJitter: a duration between duration - jitter and duration + jitter;
\* the two ends and the middle stand for the interval.
addJitter(duration, jitterPct) ==
  IF jitterPct <= 0 THEN {duration}
  ELSE LET jitter == (duration * jitterPct) \div 100
       IN {duration - jitter, duration, duration + jitter}

\* RetryWithBackoff is entered: no error yet, the first attempt next.
RetryInit(max, cancelled) ==
  [state |-> "fn", max |-> max, attempt |-> 1, delay |-> InitialDelay,
   wait |-> 0, lastErr |-> "nil", result |-> "", ctxDone |-> cancelled,
   errs |-> <<>>]

RetryFrame ==
  UNCHANGED <<redis, subscribers, clientVars, watchVars, clock, gate, pub,
              former, page, bk, agg>>

\* One turn of the loop up to its return or its select: fn is called and
\* returns err.
RetryFn(err) ==
  /\ retry.state = "fn"
  /\ \E w \in addJitter(retry.delay, Jitter) :
       retry' =
         LET r == [retry EXCEPT !.errs = Append(@, err)]
         IN CASE err = "nil" ->
                   [r EXCEPT !.state = "done", !.result = "nil"]
              [] err # "nil" /\ ~isRetryable(err) ->
                   [r EXCEPT !.state = "done", !.lastErr = err, !.result = err]
              [] err # "nil" /\ isRetryable(err)
                   /\ retry.attempt = retry.max ->
                   [r EXCEPT !.state = "done", !.lastErr = err, !.result = err]
              [] OTHER ->
                   [r EXCEPT !.state = "select", !.lastErr = err, !.wait = w]
  /\ RetryFrame

\* select: case <-ctx.Done(): return ctx.Err().
RetryCtxDone ==
  /\ retry.state = "select"
  /\ retry.ctxDone
  /\ retry' = [retry EXCEPT !.state = "done", !.result = "context canceled"]
  /\ RetryFrame

\* select: case <-time.After(jitteredDelay); the delay grows up to MaxDelay
\* and the loop goes to its next attempt.
RetryTimer ==
  /\ retry.state = "select"
  /\ retry' = [retry EXCEPT
                 !.delay = IF @ * Multiplier > MaxDelay THEN MaxDelay
                           ELSE @ * Multiplier,
                 !.attempt = @ + 1, !.state = "fn"]
  /\ RetryFrame

\* The caller's context is cancelled.
RetryCancel ==
  /\ retry.state \in {"fn", "select"}
  /\ ~retry.ctxDone
  /\ retry' = [retry EXCEPT !.ctxDone = TRUE]
  /\ RetryFrame

\* ------------------------------------------------------- ListNodes by pages
PageSizes  == {-1, 0, 1}
PageTokens == {"", "-1", "abc"}

\* A client begins to list with a filter and a page size, no mutation being
\* in progress.  Redis returns the members of an unchanged set in one order.
ListStart(tf, sf, size, token) ==
  /\ pc["c1"] = "idle"
  /\ page.state = "off"
  /\ \E o \in Orders(Members(redis, tf, sf)) :
       page' = [state |-> "run", tf |-> tf, sf |-> sf, size |-> size,
                first |-> token, token |-> token, order |-> o, at |-> redis,
                got |-> <<>>, calls |-> 0]
  /\ UNCHANGED <<redis, subscribers, clientVars, watchVars, clock, gate, pub,
                 former, bk, agg, retry>>

\* NodeService.ListNodes on the next page token; Client.ListNodes stops at an
\* error and at an empty next_page_token.
ListPage ==
  /\ page.state = "run"
  /\ pc["c1"] = "idle"
  /\ LET pageSize == PageSize(page.size)
         offset   == IF page.token # "" THEN Sscanf(page.token, 0) ELSE 0
         members  == page.order
         n        == Len(members)
     IN IF ListFails(redis, page.tf, page.sf)
        THEN page' = [page EXCEPT !.state = "error", !.calls = @ + 1]
        ELSE IF SlicePanics(n, offset, pageSize)
        THEN page' = [page EXCEPT !.state = "panic", !.calls = @ + 1]
        ELSE LET nodes == ListSlice(redis, members, offset, pageSize)
                 next  == IF Len(nodes) = pageSize
                          THEN Sprintf(offset + pageSize) ELSE ""
             IN page' = [page EXCEPT !.got = @ \o nodes,
                                     !.token = next,
                                     !.calls = @ + 1,
                                     !.state = IF next = "" THEN "done"
                                               ELSE "run"]
  /\ UNCHANGED <<redis, subscribers, clientVars, watchVars, clock, gate, pub,
                 former, bk, agg, retry>>

\* ---------------------------------------------------------- specifications
\* Sequential: one client, one RPC at a time.
NextSeq == Call("c1", TRUE, SeqRequests) \/ Handler("c1")
SpecSeq == Init /\ [][NextSeq]_vars

\* Concurrent RPCs of all clients, no watcher.
Next == \E p \in Clients : Call(p, FALSE, ConcRequests) \/ Handler(p)
Spec == InitSeeded /\ [][Next]_vars

\* Concurrent RPCs on one node and one watcher.
NextWatch ==
  \/ \E p \in Clients : Call(p, FALSE, WatchRequests) \/ Handler(p)
  \/ \E w \in Watchers : Watcher(w)
SpecWatch == InitWatch /\ [][NextWatch]_vars

\* RPCs of one client on one node and one watcher, where a handler that can
\* take a step takes it and the polling goroutine and the send loop run
\* when they can.
NextWatchOne ==
  \/ Call("c1", FALSE, WatchRequests) \/ Handler("c1")
  \/ \E w \in Watchers : Watcher(w)
SpecWatchFair ==
  /\ InitWatch /\ [][NextWatchOne]_vars
  /\ WF_vars(Handler("c1"))
  /\ \A w \in Watchers :
       /\ WF_vars(TTick(w) \/ TRead(w) \/ TGet(w) \/ TPub(w) \/ TExit(w))
       /\ WF_vars(WSend(w))
       /\ WF_vars(WReturn(w))

\* Sequential RPCs on one record while the clock runs.
NextFields == Call("c1", TRUE, FieldRequests) \/ Handler("c1") \/ Tick
SpecFields == Init /\ [][NextFields]_vars

\* Sequential UpdateNode RPCs on the seeded node while the clock runs.
NextChanged ==
  \/ Call("c1", TRUE, ChangeRequests)
  \/ UGet("c1") \/ UDelIdx("c1") \/ USave("c1") \/ UAppend("c1") \/ UPub("c1")
  \/ Tick
SpecChanged == InitWatch /\ [][NextChanged]_vars

\* Sequential RPCs on a seeded store, then one listing.
ListRequests == RequestsOver({"i1", "i2"}, {"VM"}, {"a"}, {"UP", "DOWN"}, {Nil})
NextList ==
  \/ page.state = "off" /\ (Call("c1", TRUE, ListRequests) \/ Handler("c1"))
  \/ \E tf \in {"", "VM"}, sf \in {"", "UP"}, size \in PageSizes,
        token \in PageTokens : ListStart(tf, sf, size, token)
  \/ ListPage
SpecList == InitWatch /\ [][NextList]_vars

\* Tasks that call the Broker concurrently.
NextBk ==
  \/ \E t \in BkTasks :
       \/ \E o \in BkOps : BkCall(t, o)
       \/ BkLock(t) \/ BkSubscribe(t) \/ BkClose(t) \/ BkDelete(t)
       \/ BkRLock(t) \/ BkSelect(t) \/ BkRUnlock(t)
  \/ \E h \in 1..MaxBkCalls : BkReceive(h)
InitBk ==
  /\ redis = EmptyRedis /\ InitCore
  /\ page = NoPage /\ bk = BkInit /\ agg = NoAgg /\ retry = NoRetry
SpecBk == InitBk /\ [][NextBk]_vars

\* The Aggregator, its caller, its subscriber and its sampler.
NextAgg ==
  \/ \E c \in AggCalls : AggCall(c)
  \/ AggLock \/ AggBody \/ AggReceive
  \/ \E t \in AggTasks : AggRLock(t)
  \/ \E t \in AggTasks : AggSnapshot(t)
  \/ SampleTick \/ SampleLock \/ SamplePush
InitAgg ==
  /\ redis = EmptyRedis /\ InitCore
  /\ page = NoPage /\ bk = NoBk /\ agg = AggInit /\ retry = NoRetry
SpecAgg == InitAgg /\ [][NextAgg]_vars

\* The same where every goroutine that can take a step takes it and the
\* ticker fires.
SpecAggFair ==
  /\ InitAgg /\ [][NextAgg]_vars
  /\ WF_vars(AggLock \/ AggBody \/ AggRLock("g") \/ AggSnapshot("g"))
  /\ WF_vars(SampleTick \/ SampleLock \/ SamplePush
               \/ AggRLock("s") \/ AggSnapshot("s"))

\* One call of RetryWithBackoff with any MaxAttempts from 1 up; the context
\* may be cancelled from the entry on; fn returns and the timer fires.
NextRetry ==
  \/ \E err \in FnResults : RetryFn(err)
  \/ RetryCtxDone \/ RetryTimer \/ RetryCancel
InitRetry ==
  /\ redis = EmptyRedis /\ InitCore
  /\ page = NoPage /\ bk = NoBk /\ agg = NoAgg
  /\ retry \in {RetryInit(max, FALSE) : max \in 1..MaxRetryAttempts}
SpecRetry ==
  /\ InitRetry /\ [][NextRetry]_vars
  /\ WF_vars(\E err \in FnResults : RetryFn(err))
  /\ WF_vars(RetryCtxDone \/ RetryTimer)

\* One RPC through the auth interceptors.
NextAuth == UnaryAuthInterceptor \/ StreamAuthInterceptor
SpecAuth == InitAuth /\ [][NextAuth]_vars

\* Subscribers, publishers and consumers of the Broker.
NextBroker ==
  \/ \E id \in BrokerSubs : BSubscribe(id) \/ BUnsubscribe(id) \/ BReceive(id)
  \/ \E m \in BrokerEvents, done \in BOOLEAN : BPublish(m, done)
SpecBroker == Init /\ [][NextBroker]_vars

\* ------------------------------------------------------------------ claims
Idle(p) == pc[p] = "idle"
Done(p) == pc[p] = "idle" /\ res[p] # ""

\* No storage round trip has failed and no CreateNode has been given the id
\* of a node created before: every id has at most one CREATED event.
CreatedCount(id) ==
  Cardinality({i \in 1..Len(redis.events) :
                 redis.events[i].id = id /\ redis.events[i].kind = "CREATED"})
Regular == faults = 0 /\ \A id \in Ids : CreatedCount(id) <= 1

TypeSetsOf(r, id)   == {t \in Types : id \in r.type[t]}
StatusSetsOf(r, id) == {st \in AllStatuses : id \in r.status[st]}

\* C1: after any sequence of completed mutating calls, every stored node is
\* in the "all" index, in the type index of its stored type and no other,
\* and in the status index of its stored status and no other.
C1_IndexMembership ==
  (Idle("c1") /\ Regular) =>
    \A id \in DOMAIN redis.hash :
      /\ id \in redis.all
      /\ TypeSetsOf(redis, id) = {redis.hash[id].type}
      /\ StatusSetsOf(redis, id) = {redis.hash[id].status}

\* C2: after any sequence of completed mutating calls, no two stored nodes
\* have the same (type, name).
C2_UniqueKey ==
  (Idle("c1") /\ faults = 0) =>
    \A i, j \in DOMAIN redis.hash :
      i # j => <<redis.hash[i].type, redis.hash[i].name>>
                 # <<redis.hash[j].type, redis.hash[j].name>>

\* C3: of two CreateNode calls with the same (type, name) that ran
\* concurrently, at most one returns success.
C3_OneWinner ==
  (/\ Done("c1") /\ Done("c2")
   /\ req["c1"].op = "CreateNode" /\ req["c2"].op = "CreateNode"
   /\ req["c1"].type = req["c2"].type /\ req["c1"].name = req["c2"].name
   /\ req["c1"].id # req["c2"].id
   /\ overlap["c1"] /\ overlap["c2"]
   /\ ~faulted["c1"] /\ ~faulted["c2"])
  => ~(res["c1"] = "OK" /\ res["c2"] = "OK")

C5_DeleteRemoves ==
  (/\ Done("c1") /\ req["c1"].op = "DeleteNode" /\ res["c1"] = "OK"
   /\ Regular)
  => /\ req["c1"].id \notin redis.all
     /\ TypeSetsOf(redis, req["c1"].id) = {}
     /\ StatusSetsOf(redis, req["c1"].id) = {}
     /\ ~Exists(redis, req["c1"].id)

\* C6: the log's events of one node are CREATED first, then UPDATED only,
\* then at most one DELETED, which is the last.
KindsOf(id) ==
  LET F[i \in 0..Len(redis.events)] ==
        IF i = 0 THEN <<>>
        ELSE IF redis.events[i].id = id
             THEN Append(F[i - 1], redis.events[i].kind)
             ELSE F[i - 1]
  IN F[Len(redis.events)]

Causal(ks) ==
  ks # <<>> =>
    /\ ks[1] = "CREATED"
    /\ \A i \in 2..Len(ks) : ks[i] # "CREATED"
    /\ \A i \in 1..(Len(ks) - 1) : ks[i] # "DELETED"

C6_CausalOrder ==
  ((\A p \in Clients : Idle(p)) /\ Regular) =>
    \A id \in Ids : Causal(KindsOf(id))

\* C7: a mutating call that returns success has appended exactly one event
\* to the log (none when it is an UpdateStatus that found the status
\* unchanged), and a call that returns an error has appended none.
KeepsStatus(p) ==
  req[p].op = "UpdateStatus" /\ old[p].status = req[p].status

C7_OneEventPerMutation ==
  \A p \in Clients :
    Done(p) =>
      Len(appended[p]) = (IF res[p] = "OK" /\ ~KeepsStatus(p) THEN 1 ELSE 0)

C7_Witness ==
  /\ Done("c1") /\ res["c1"] = "OK" /\ Len(appended["c1"]) = 1
  /\ Done("c2") /\ res["c2"] = "INTERNAL" /\ faulted["c2"]
  /\ req["c2"].op = "UpdateNode" /\ appended["c2"] = <<>>
  /\ overlap["c1"] /\ overlap["c2"]

\* C8: a watcher that stays connected receives every event appended after
\* it subscribed.  Once every RPC has returned, the watcher's cursor is at
\* the end of the log and its channel is empty, nothing more will be sent
\* to it, so by then every such event must have been sent.
Drained(w) ==
  /\ \A p \in Clients : Idle(p)
  /\ wpc[w] = "run" /\ ~ctxDone[w]
  /\ tpc[w] \in {"poll", "xread"} /\ lastID[w] = Len(redis.events)
  /\ subscribers[w] = <<>>

SeqsSent(w) == {delivered[w][i].seq : i \in 1..Len(delivered[w])}

C8_NoGaps ==
  \A w \in Watchers :
    (Drained(w) /\ Regular) =>
      \A k \in (subAt[w] + 1)..Len(redis.events) : k \in SeqsSent(w)

\* C9: the events of one node appended after a watcher subscribed reach it
\* in log-sequence order: an event sent after an event of the same node
\* with a higher sequence is a repetition of one sent before that.
C9_SequenceOrder ==
  \A w \in Watchers :
    LET d == delivered[w] IN
      Regular =>
      \A i, j \in 1..Len(d) :
        (/\ i < j /\ d[i].id = d[j].id
         /\ subAt[w] < d[j].seq /\ d[j].seq < d[i].seq)
        => \E k \in 1..(i - 1) : d[k].seq = d[j].seq

\* C10: an UpdateStatus that finds the status it is given appends nothing
\* to the log and sends no event to any subscriber.
C10_NoEventOnSameStatus ==
  \A p \in Clients :
    (/\ Done(p) /\ req[p].op = "UpdateStatus" /\ res[p] = "OK"
     /\ old[p].status = req[p].status)
    => appended[p] = <<>> /\ published[p] = 0

\* C11: for a mutating method the gate invokes the handler, and returns its
\* result, only when the first authorization value is "Bearer " followed by
\* exactly the admin secret; otherwise the handler is not invoked and the
\* gate returns UNAUTHENTICATED when the metadata, the authorization value
\* or its "Bearer " prefix is missing, and PERMISSION_DENIED when the token
\* differs from the secret.
C11_MutatingGate ==
  (gate.result # "" /\ gate.method \in Mutating) =>
    LET v == gate.md.authorization
        bearer == /\ gate.md.ok /\ Len(v) > 0
                  /\ \E t \in {SubSeq(v[1], 8, Len(v[1]))} : v[1] = "Bearer " \o t
    IN IF bearer /\ v[1] = "Bearer " \o gate.adminToken
       THEN gate.invoked /\ gate.result = gate.hres
       ELSE /\ ~gate.invoked
            /\ gate.result =
                 (IF bearer THEN "PERMISSION_DENIED" ELSE "UNAUTHENTICATED")

C11_Witness ==
  /\ gate.method = "DeleteNode" /\ gate.adminToken = "s3cret"
  /\ gate.md.authorization = <<"Bearer s3cret ">>
  /\ gate.result = "PERMISSION_DENIED" /\ ~gate.invoked

\* C12: for a read method the gate invokes the handler and returns the
\* handler's result unchanged, whatever metadata the request carries.
C12_ReadsPassThrough ==
  (gate.result # "" /\ gate.method \in Reads) =>
    gate.invoked /\ gate.result = gate.hres

C12_Witness ==
  /\ gate.method = "WatchEvents" /\ gate.adminToken = "s3cret"
  /\ gate.md.authorization = <<"Bearer other">>
  /\ gate.invoked /\ gate.result = "OK"

\* C13: a CreateNode rejected because its (type, name) is taken returns
\* ALREADY_EXISTS; an UpdateNode, UpdateStatus or DeleteNode on an id that
\* is not stored returns NOT_FOUND.
C13_ErrorMapping ==
  (/\ Done("c1") /\ ~faulted["c1"]
   /\ res["c1"] \notin {"OK", "INVALID_ARGUMENT"})
  => IF req["c1"].op = "CreateNode"
     THEN <<req["c1"].type, req["c1"].name>> \in DOMAIN pre.byname
            => res["c1"] = "ALREADY_EXISTS"
     ELSE req["c1"].id \notin DOMAIN pre.hash => res["c1"] = "NOT_FOUND"

\* C14: a Publish that finds the buffer of some subscription full leaves
\* that buffer as it was and appends the event to the buffer of every other
\* subscription that has room; no buffer holds more than its capacity.
C14_DropOnFullOnly ==
  (/\ pub # NoPub
   /\ \E f \in DOMAIN pub.before : Len(pub.before[f]) = MaxBuf)
  => \A sub \in DOMAIN pub.before :
       /\ Len(subscribers[sub]) <= MaxBuf
       /\ subscribers[sub] =
            (IF Len(pub.before[sub]) < MaxBuf
             THEN Append(pub.before[sub], pub.event)
             ELSE pub.before[sub])

\* C15: when no mutation is in progress, GetNode succeeds for exactly the
\* ids the unfiltered ListNodes returns.
C15_GetListAgree ==
  (\A p \in Clients : Idle(p)) =>
    \A id \in Ids : Exists(redis, id) <=> id \in ListNodes(redis, "", "")

C15_Witness ==
  /\ \A p \in Clients : Idle(p)
  /\ faults = 0
  /\ Exists(redis, "i1") /\ "i1" \in ListNodes(redis, "", "")
  /\ ~Exists(redis, "i2") /\ "i2" \notin ListNodes(redis, "", "")
  /\ \E k \in 1..Len(redis.events) :
       redis.events[k].id = "i2" /\ redis.events[k].kind = "DELETED"

\* C16: a successful CreateNode whose request has no status returns a node
\* with a non-empty id, status UNKNOWN and last_seen set, and GetNode of
\* that id yields the node returned.
C16_CreateDefaults ==
  (/\ Done("c1") /\ req["c1"].op = "CreateNode" /\ res["c1"] = "OK"
   /\ req["c1"].status \notin Statuses)
  => /\ req["c1"].id # ""
     /\ req["c1"].status = "UNKNOWN"
     /\ req["c1"].last_seen # Nil
     /\ GetNode(redis, req["c1"].id) = ReqNode(req["c1"])

\* C17: a successful UpdateNode or UpdateStatus on a node leaves the
\* last_seen GetNode returns no lower than it was before the call.
C17_LastSeenMonotonic ==
  (/\ Done("c1") /\ res["c1"] = "OK" /\ Regular
   /\ req["c1"].op \in {"UpdateNode", "UpdateStatus"}
   /\ Exists(pre, req["c1"].id) /\ Exists(redis, req["c1"].id))
  => GetNode(redis, req["c1"].id).last_seen
       >= GetNode(pre, req["c1"].id).last_seen

\* C18: until a mutating call has made its last Store write, and after a
\* call that failed, an observer sees the keyspace and the log as they were
\* when the call started.
Committed(p) ==
  \/ pc[p] \in {"c_pub", "u_pub", "s_pub", "d_pub"}
  \/ Idle(p) /\ res[p] = "OK"

C18_AllOrNothing ==
  (ncalls > 0 /\ ~Committed("c1")) => redis = pre

\* C19: after a successful UpdateNode that changes the type of a node, the
\* listing filtered by the new type contains the node and the listing
\* filtered by the old type does not; after one that changes the status,
\* the node is not in the status index, nor in the listing, of the old status.
C19_UpdateMovesIndexes ==
  (Done("c1") /\ req["c1"].op = "UpdateNode" /\ res["c1"] = "OK") =>
    LET id == req["c1"].id
        o  == old["c1"]
    IN /\ o.type # req["c1"].type =>
            /\ id \in ListNodes(redis, req["c1"].type, "")
            /\ id \notin ListNodes(redis, o.type, "")
       /\ o.status # req["c1"].status =>
            /\ id \notin redis.status[o.status]
            /\ id \notin ListNodes(redis, "", o.status)

C19_Witness ==
  /\ Done("c1") /\ req["c1"].op = "UpdateNode" /\ res["c1"] = "OK"
  /\ old["c1"].type = "VM" /\ req["c1"].type = "BAREMETAL"
  /\ old["c1"].status = "UP" /\ req["c1"].status = "DOWN"
  /\ ListNodes(redis, "BAREMETAL", "") = {req["c1"].id}
  /\ ListNodes(redis, "VM", "") = {}

\* C20: a watcher that subscribed before a successful DeleteNode and stays
\* connected is sent the DELETED event of that call.
C20_DeletedObserved ==
  \A w \in Watchers :
    (Drained(w) /\ Regular) =>
      \A k \in (subAt[w] + 1)..Len(redis.events) :
        redis.events[k].kind = "DELETED" =>
          \E i \in 1..Len(delivered[w]) :
            delivered[w][i].kind = "DELETED" /\ delivered[w][i].seq = k

\* C21: when no call is in progress, ListNodes with only a type filter
\* returns exactly the stored nodes of that type, with only a status filter
\* exactly the stored nodes of that status, and with no filter every stored
\* node.
C21_FilteredListing ==
  (Idle("c1") /\ Regular) =>
    /\ \A t \in Types :
         ListNodes(redis, t, "")
           = {id \in DOMAIN redis.hash : redis.hash[id].type = t}
    /\ \A st \in Statuses :
         ListNodes(redis, "", st)
           = {id \in DOMAIN redis.hash : redis.hash[id].status = st}
    /\ ListNodes(redis, "", "") = DOMAIN redis.hash

\* C22: ListNodes with a type filter and a status filter succeeds and
\* returns the nodes that are in both index sets.
C22_BothFilters ==
  (Idle("c1") /\ Regular) =>
    \A t \in Types, st \in Statuses :
      /\ ~ListFails(redis, t, st)
      /\ ListNodes(redis, t, st) = redis.type[t] \cap redis.status[st]

\* C23: a watcher is sent no event that was in the log when it subscribed:
\* while no call has been made since the server started, every message a
\* watcher was sent is of a log entry past the end of the log at the time
\* of its subscription.
C23_NoHistoryReplay ==
  ncalls = 0 =>
    \A w \in Watchers :
      \A i \in 1..Len(delivered[w]) : delivered[w][i].seq > subAt[w]

\* C24: once a watcher's context is cancelled, or a send on its stream has
\* failed, its send loop and its polling goroutine end and its subscription
\* is out of the broker.  Stated for the runs in which no RPC has been made
\* when the context ends: the watcher ends, or an RPC is made later.
C24_WatcherTerminates ==
  \A w \in Watchers :
    (ctxDone[w] /\ ncalls = 0) ~>
      \/ wpc[w] = "done" /\ tpc[w] = "done" /\ w \notin DOMAIN subscribers
      \/ ncalls > 0

\* C25: a request that lacks its node, its name, its type, its id or its
\* status returns INVALID_ARGUMENT without a Store call: the keyspace and
\* the log are as they were when the call started, nothing was read, and
\* nothing was handed to the broker.
BadArguments(r) ==
  CASE r.op = "CreateNode"   -> r.name = "" \/ r.type = ""
    [] r.op = "UpdateStatus" -> r.id = "" \/ r.status = "UNSPECIFIED"
    [] OTHER                 -> r.id = ""

C25_ValidationFirst ==
  (Done("c1") /\ BadArguments(req["c1"])) =>
    /\ res["c1"] = "INVALID_ARGUMENT"
    /\ redis = pre
    /\ old["c1"] = NoNode
    /\ appended["c1"] = <<>>
    /\ notified["c1"] = NoNotice /\ published["c1"] = 0

C25_Witness ==
  /\ Done("c1") /\ res["c1"] = "INVALID_ARGUMENT"
  /\ req["c1"].op = "UpdateStatus" /\ req["c1"].status = "UNSPECIFIED"
  /\ Exists(redis, req["c1"].id) /\ redis = pre

\* C26: a channel that a second Subscribe with the same id replaced is
\* closed (every channel taken out of the broker's map is).
C26_OverwriteCloses ==
  \A id \in DOMAIN former : former[id].closed

\* C27: two UpdateNode calls on the same node that ran concurrently and
\* succeeded have each appended one event, and the stored record, the
\* (type, name) keys that point to the node and its type and status index
\* memberships are those of the request of one of the two.
KeysOf(r, id) == {k \in DOMAIN r.byname : r.byname[k] = id}

C27_LastWriterWins ==
  (/\ Done("c1") /\ Done("c2") /\ Regular
   /\ req["c1"].op = "UpdateNode" /\ req["c2"].op = "UpdateNode"
   /\ req["c1"].id = req["c2"].id
   /\ res["c1"] = "OK" /\ res["c2"] = "OK"
   /\ overlap["c1"] /\ overlap["c2"])
  => /\ Len(appended["c1"]) = 1 /\ Len(appended["c2"]) = 1
     /\ appended["c1"] # appended["c2"]
     /\ \E p \in Clients :
          LET n == req[p] IN
            /\ Exists(redis, n.id)
            /\ redis.hash[n.id].type = n.type
            /\ redis.hash[n.id].name = n.name
            /\ redis.hash[n.id].status = n.status
            /\ KeysOf(redis, n.id) = {<<n.type, n.name>>}
            /\ TypeSetsOf(redis, n.id) = {n.type}
            /\ StatusSetsOf(redis, n.id) = {n.status}

\* C28: Publish appends the event to the buffer of every subscription that
\* has room, whether the publisher's context is live or cancelled.
C28_PublishReachesAll ==
  pub # NoPub =>
    \A sub \in DOMAIN pub.before :
      Len(pub.before[sub]) < MaxBuf =>
        subscribers[sub] = Append(pub.before[sub], pub.event)

\* C29: the message a successful call hands to the broker has the kind, the
\* node id and the changed fields of the event the call appended.
C29_MessageMatchesEvent ==
  \A p \in Clients :
    (Done(p) /\ Regular /\ res[p] = "OK" /\ appended[p] # <<>>) =>
      notified[p] = Notice(redis.events[MySeq(p)].kind,
                           redis.events[MySeq(p)].id,
                           redis.events[MySeq(p)].changed)

\* C30: whenever the polling goroutine of a connected watcher moves its
\* cursor past an event, it does so by publishing the mirror of that event.
C30_EveryEventMirrored ==
  [][\A w \in Watchers :
       (lastID'[w] > lastID[w] /\ ~ctxDone[w]) => tpc[w] = "pub"]_vars

\* C31: an UpdateStatus with the status the node already has leaves the
\* node with last_seen equal to the time of the call (to the second the
\* record keeps) and with its name, type, status, keys, index memberships
\* and the log as they were.
C31_SameStatusStampsLastSeen ==
  (/\ Done("c1") /\ Regular
   /\ req["c1"].op = "UpdateStatus" /\ res["c1"] = "OK"
   /\ Exists(pre, req["c1"].id)
   /\ pre.hash[req["c1"].id].status = req["c1"].status)
  => /\ Exists(redis, req["c1"].id)
     /\ GetNode(redis, req["c1"].id).last_seen = RFC3339(old["c1"].last_seen)
     /\ GetNode(redis, req["c1"].id)
          = [GetNode(pre, req["c1"].id) EXCEPT
               !.last_seen = GetNode(redis, req["c1"].id).last_seen]
     /\ redis.byname = pre.byname /\ redis.all = pre.all
     /\ redis.type = pre.type /\ redis.status = pre.status
     /\ redis.events = pre.events

\* C32: UpdateNode, UpdateStatus and DeleteNode on an id that has no record
\* fail; the keyspace and the log are as they were when the call started
\* and nothing is handed to the broker.
C32_AbsentIdNoEffect ==
  (/\ Done("c1")
   /\ req["c1"].op \in {"UpdateNode", "UpdateStatus", "DeleteNode"}
   /\ req["c1"].id # "" /\ ~Exists(pre, req["c1"].id))
  => /\ res["c1"] \notin {"OK", "INVALID_ARGUMENT"}
     /\ redis = pre
     /\ appended["c1"] = <<>>
     /\ notified["c1"] = NoNotice /\ published["c1"] = 0

C32_Witness ==
  /\ Done("c1") /\ faults = 0
  /\ req["c1"].op = "UpdateNode" /\ ~Exists(pre, req["c1"].id)
  /\ res["c1"] = "INTERNAL"
  /\ DOMAIN redis.hash # {} /\ redis = pre

\* C33: a successful UpdateNode appends one UPDATED event whose changed
\* fields are, each once, the fields among name, type, status, labels and
\* metadata_json in which the request differs from the stored node (labels
\* as a set of key/value pairs), also when there is none, and leaves the
\* node with the last_seen stamped by the call.
Differs(o, n) ==
  {f \in {"name", "type", "status", "labels", "metadata_json"} :
     CASE f = "name"   -> o.name # n.name
       [] f = "type"   -> o.type # n.type
       [] f = "status" -> o.status # n.status
       [] f = "labels" -> o.labels # n.labels
       [] OTHER        -> o.metadata # n.metadata}

Ran(seq) == {seq[i] : i \in 1..Len(seq)}

C34_PagesEnumerate ==
  (/\ page.state = "done" /\ page.first = "" /\ page.size >= 0
   /\ page.at = redis /\ Idle("c1") /\ Regular)
  => /\ Ran(page.got)
          = {id \in Members(redis, page.tf, page.sf) : Exists(redis, id)}
     /\ Len(page.got) = Cardinality(Ran(page.got))
     /\ page.calls <= Len(page.order) + 1

\* C35: no page size and no page token makes the ListNodes RPC slice the
\* members outside 0 <= start <= end <= number of members.
C35_SliceBounds == page.state # "panic"

\* C36: whatever the interleaving of Subscribe, Unsubscribe and Publish, no
\* Publish sends on a channel that Unsubscribe has closed.
C36_NoSendOnClosed ==
  bk.state = "on" => \A h \in 1..Len(bk.chans) : ~bk.chans[h].late

C36_Witness ==
  /\ bk.state = "on"
  /\ \E h \in 1..Len(bk.chans) : bk.chans[h].closed
  /\ \E t, u \in BkTasks : bk.tpc[t] = "delete" /\ bk.tpc[u] = "rlock"

\* C37: a CreateNode whose id is the id of a stored node leaves that node's
\* record, the (type, name) keys that point to it and its index
\* memberships as they were.
C37_CreateKeepsStoredId ==
  (/\ Done("c1") /\ faults = 0
   /\ req["c1"].op = "CreateNode" /\ Exists(pre, req["c1"].id))
  => /\ GetNode(redis, req["c1"].id) = GetNode(pre, req["c1"].id)
     /\ KeysOf(redis, req["c1"].id) = KeysOf(pre, req["c1"].id)
     /\ TypeSetsOf(redis, req["c1"].id) = TypeSetsOf(pre, req["c1"].id)
     /\ StatusSetsOf(redis, req["c1"].id) = StatusSetsOf(pre, req["c1"].id)

\* C38: a sampling step that has begun completes and releases the lock, and
\* a HandleEvent, SetNodes or Snapshot call that has been issued returns.
C38_SampleCompletes ==
  /\ (agg.state = "on" /\ agg.spc = "lock") ~> (agg.spc = "wait")
  /\ (agg.state = "on" /\ agg.gpc \in {"lock", "rlock"}) ~> (agg.gpc = "idle")

\* C39: once SetNodes has run, between calls the per-status counts and the
\* per-type counts each sum to the number of tracked nodes and none is
\* negative.
SumOf(f) ==
  LET RECURSIVE Sum(_)
      Sum(S) == IF S = {} THEN 0
                ELSE LET x == CHOOSE y \in S : TRUE IN f[x] + Sum(S \ {x})
  IN Sum(DOMAIN f)

C39_CountsMatchNodes ==
  (agg.state = "on" /\ agg.set /\ agg.gpc = "idle")
  => /\ SumOf(agg.statusCounts) = Cardinality(DOMAIN agg.nodes)
     /\ SumOf(agg.typeCounts) = Cardinality(DOMAIN agg.nodes)
     /\ \A st \in AggStatuses : agg.statusCounts[st] >= 0
     /\ \A t \in AggTypes : agg.typeCounts[t] >= 0

\* C40: for every MaxAttempts >= 1 RetryWithBackoff returns; fn is called
\* at most MaxAttempts times; while it runs every error so far was
\* retryable; it returns nil after a first success, the error after a first
\* non-retryable error, the last error after MaxAttempts retryable failures,
\* and the context error only from a wait with the context cancelled.
Transient(e) ==
  e \in {"Unavailable", "DeadlineExceeded", "ResourceExhausted", "Aborted"}
RetryReturns ==
  LET n == Len(retry.errs)
      before(k) == \A i \in 1..k : Transient(retry.errs[i])
  IN /\ n <= retry.max
     /\ retry.state = "fn" => before(n) /\ n < retry.max
     /\ retry.state = "select" => before(n) /\ n >= 1 /\ n < retry.max
     /\ retry.state = "done" =>
          IF retry.result = "context canceled"
          THEN retry.ctxDone /\ before(n) /\ n >= 1 /\ n < retry.max
          ELSE /\ n >= 1 /\ before(n - 1)
               /\ retry.result = retry.errs[n]
               /\ \/ retry.errs[n] = "nil"
                  \/ ~Transient(retry.errs[n])
                  \/ n = retry.max
====
